---- MODULE Spec2Model ----
(***************************************************************************)
(* Model of the caching DNS forwarder of src/DNS/dns_server.py: the        *)
(* Listener loop (run_dns_server), one thread per datagram running         *)
(* handle_client, the Forwarder (forward_query), and the shared cache      *)
(* guarded by cache_lock.  The wall clock (time.time()) is the variable    *)
(* now, advanced by the environment.                                       *)
(***************************************************************************)
EXTENDS Naturals, Integers, Sequences, FiniteSets, TLC

\* ---------------------------------------------------------------- bounds
MaxDatagrams == 2      \* datagrams the Listener receives in one run

\* ------------------------------------------------------ program constants
DefaultTTL == 60       \* "ttl = 60 # Default TTL if none found"

\* ------------------------------------------------------------ input sets
Threads == {1, 2}                  \* handler threads alive at the same time;
                                   \* a thread that has ended leaves its place
                                   \* to the thread of a later datagram
Keys == {"k1", "k2"}               \* (qname, qtype) pairs
TxIds == {1, 2}                    \* DNS transaction ids
Addrs == {"a1", "a2"}              \* client source addresses
Times == {0, 1, 60}                \* instants at which time.time() is read

\* Answer sections an upstream reply may carry: a sequence of resource
\* records, each with its own ttl and its data.
RR(t, d) == [ttl |-> t, rd |-> d]
NoAnswers == << >>
TwoAnswers == << RR(61, "x"), RR(2, "y") >>
ZeroTTL == << RR(0, "z") >>
AnswerSets == { NoAnswers, TwoAnswers }

\* A wire encoding is either the one DNSRecord.pack() emits ("packed") or
\* another valid encoding of the same record ("loose": e.g. names written
\* without compression pointers, or bytes after the last record).
Encs == {"packed", "loose"}

Free == 0              \* cache_lock not held by any thread

\* Byte strings.  kind "dns" are well-formed response bytes with a header
\* id, an answer section and the encoding the bytes use; the other kinds
\* carry no fields of interest.
Bytes(i, a, e) == [kind |-> "dns", id |-> i, ans |-> a, enc |-> e]
Blank(k) == [kind |-> k, id |-> 1, ans |-> <<>>, enc |-> "packed"]
None == Blank("none")        \* Python None: forward_query timed out
Empty == Blank("empty")      \* b'' : a zero-length datagram
Garbage == Blank("garbage")  \* bytes DNSRecord.parse() rejects

\* Datagrams a client may send to the Listener: the query bytes and the
\* source address.  ok = FALSE are bytes DNSRecord.parse() rejects.  The
\* two clients use different transaction ids; the first asks for either
\* key, the second for the key they have in common.
Query(a, i, k, o) == [addr |-> a, id |-> i, key |-> k, ok |-> o]
Datagrams ==
    { Query("a1", 1, k, TRUE) : k \in Keys } \cup
    { Query("a2", 2, "k1", TRUE) } \cup
    { Query("a1", 2, "k1", FALSE) }

\* Repeated identical queries: the same name and type, from either client.
RepeatedQueries == { d \in Datagrams : d.ok /\ d.key = "k1" }
NoReq == [addr |-> "a1", id |-> 1, key |-> "k1", ok |-> FALSE]

\* ------------------------------------------------------- pure functions
Parseable(b) == b.kind = "dns"

\* DNSRecord.parse: the record a byte string denotes; the encoding is not
\* part of the record.
Parse(b) == [id |-> b.id, ans |-> b.ans]

\* DNSRecord.pack: always emits the library's own encoding.
Pack(r) == Bytes(r.id, r.ans, "packed")

Min(S) == CHOOSE m \in S : \A x \in S : m <= x
Max(S) == CHOOSE m \in S : \A x \in S : m >= x
TTLs(r) == { r.ans[i].ttl : i \in 1..Len(r.ans) }

\* faulty variant: the largest answer TTL, not the smallest
TTLToCacheMax(r) == IF Len(r.ans) > 0 THEN Max(TTLs(r)) ELSE DefaultTTL

\* lines 86-88: ttl = 60; if response_record.rr: ttl = min(rr.ttl ...)
TTLToCache(r) == IF Len(r.ans) > 0 THEN Min(TTLs(r)) ELSE DefaultTTL

\* faulty variant: an entry is still served at its expiry instant
IsFreshInclusive(t, expiry) == t <= expiry

\* faulty variant: comparison reversed
IsFreshReversed(t, expiry) == t >= expiry

\* line 68: time.time() < expiry
IsFresh(t, expiry) == t < expiry

\* faulty variant: the cached bytes are re-sent with the id they were stored with
HitReplyStaleId(raw, qid) == Pack(Parse(raw))

\* lines 70-72: parse the cached bytes, overwrite header.id, pack again
HitReply(raw, qid) == Pack([Parse(raw) EXCEPT !.id = qid])

\* faulty variant: a failure reply is synthesized for the client on timeout
TimeoutReplyServFail(q) ==
    << [to |-> q.addr, data |-> Bytes(q.id, << >>, "packed"), via |-> "miss"] >>

\* lines 80-81: "return  # Upstream timeout, drop request": the datagrams
\* sent to the client when forward_query returned None
TimeoutReply(q) == << >>

\* faulty variant: the datagram is not checked before it is used
ParseOutcomeUnchecked(d) == "acquire1"

\* lines 60-62: DNSRecord.parse(data) raises on malformed bytes, which ends
\* the handler in the except clause of line 96
ParseOutcome(d) == IF d.ok THEN "acquire1" ELSE "dropped"

\* faulty variant: the reply is stored before it is parsed
ForwardOutcomeStoreFirst(r) ==
    IF r.kind \in {"none", "empty"} THEN "dropped" ELSE "acquire2"

\* lines 80-83: "if not response_data: return" drops None and b''; then
\* DNSRecord.parse(response_data) raises on bytes it rejects
ForwardOutcome(r) ==
    IF r.kind \in {"none", "empty"} THEN "dropped"
    ELSE IF ~Parseable(r) THEN "dropped"
    ELSE "acquire2"

\* faulty variant: the reply is parsed and packed again before it is sent
MissReplyRepacked(r) == Pack(Parse(r))

\* line 94: response_data is sent as it was received
MissReply(r) == r

\* faulty variant: the expired entry is left in the map
EvictNothing(c, k) == c

\* line 76: del cache[(qname, qtype)]
Evict(c, k) == [x \in DOMAIN c \ {k} |-> c[x]]

\* faulty variant: an entry already present is kept (first writer wins)
PutIfAbsent(c, k, e) ==
    [x \in DOMAIN c \cup {k} |-> IF x \in DOMAIN c THEN c[x] ELSE e]

\* line 91: cache[(qname, qtype)] = (...): the entry replaces any other
Put(c, k, e) == [x \in DOMAIN c \cup {k} |-> IF x = k THEN e ELSE c[x]]

\* faulty variant: the socket is closed on the success path only
SockLeftOpen(s) == s

\* lines 54-55: finally: sock.close(), on the exits by timeout or error
SockAfterFailure(s) == IF s = "open" THEN "closed" ELSE s

\* faulty variant: the lock is taken and released by hand, and a failure between
\* the two leaves it held
LockKeptOnRaise(h) == h

\* line 65: "with cache_lock:" releases the lock when the block is left by
\* an exception
LockAfterRaise(h) == Free

\* ----------------------------------------------------------------- state
VARIABLES
    cache,      \* line 15: key -> [raw, expiry]; DOMAIN cache = keys present
    lock,       \* line 16: Free or the thread holding cache_lock
    now,        \* time.time()
    received,   \* datagrams the Listener has received so far
    listener,   \* position of run_dns_server: "recv" (line 112)
    pc,         \* position of each handler thread
    req,        \* data, addr of each thread
    entry,      \* raw_resp, expiry read at line 67 (<<>> if none)
    resp,       \* response_data of each thread
    ttl,        \* ttl of each thread
    out,        \* datagrams each thread has sent through server_socket, with
                \* the sendto that sent them: "hit" (line 72), "miss" (line 94)
    fwd,        \* forward_query calls each thread has made
    sock,       \* sock of the thread's forward_query call: "unbound", "open"
                \* or "closed"
    stores,     \* stores into the cache each thread has made
    raised,     \* whether an exception was raised in the thread
    found,      \* history: what the latest store for the key was at lookup
    lastStore,  \* history: key -> the latest store made for it (<<>> if none)
    firstStore  \* history: key -> the first store made for it (<<>> if none)

vars == << cache, lock, now, received, listener, pc, req, entry, resp,
           ttl, out, fwd, sock, stores, raised, found, lastStore, firstStore >>

shared == << cache, lock, lastStore, firstStore >>
clock == << now >>
locals == << req, entry, resp, ttl >>
history == << out, fwd, sock, stores, raised, found >>

NotLooked == [state |-> "none", raw |-> None, first |-> None]
Terminal == {"replied", "dropped"}
Unused == {"idle"} \cup Terminal

Init ==
    /\ cache = << >>
    /\ lock = Free
    /\ now = 0
    /\ received = 0
    /\ listener = "recv"
    /\ pc = [h \in Threads |-> "idle"]
    /\ req = [h \in Threads |-> NoReq]
    /\ entry = [h \in Threads |-> << >>]
    /\ resp = [h \in Threads |-> None]
    /\ ttl = [h \in Threads |-> DefaultTTL]
    /\ out = [h \in Threads |-> << >>]
    /\ fwd = [h \in Threads |-> 0]
    /\ sock = [h \in Threads |-> "unbound"]
    /\ stores = [h \in Threads |-> 0]
    /\ raised = [h \in Threads |-> FALSE]
    /\ found = [h \in Threads |-> NotLooked]
    /\ lastStore = [k \in Keys |-> << >>]
    /\ firstStore = [k \in Keys |-> << >>]

\* faulty variant: addr is read from a variable shared by the threads (the one the
\* first thread was given) and not from the thread's own argument
ReplyAddrShared(h) == req[1].addr

\* lines 57, 72, 94, 113: addr is an argument of the thread, used for both
\* sendto calls
ReplyAddr(h) == req[h].addr

\* faulty variant: the lock is not waited for
LockIgnored == TRUE

\* lines 65, 90: "with cache_lock" is entered only while no thread holds it
LockIsFree == lock = Free

\* faulty variant: the loop waits for the threads it started (a join, or a
\* call of handle_client in the loop itself)
ListenerWaits == listener = "recv" /\ \A h \in Threads : pc[h] \in Unused

\* lines 110-115: the loop is back at recvfrom as soon as the thread is
\* started
ListenerReady == listener = "recv"

\* The environment's clock.
Tick ==
    /\ \E t \in Times : t > now /\ now' = t
    /\ UNCHANGED << shared, received, listener, pc, locals, history >>

\* lines 110-115 and 59-62: recvfrom returns a datagram; a new thread is
\* started for it with its own data and addr, and the loop goes back to
\* recvfrom; the thread parses the datagram and takes qname and qtype.
Listen(D, n) ==
    /\ ListenerReady
    /\ received < n
    /\ \E h \in Threads :
        /\ pc[h] \in Unused
        /\ \A g \in Threads : g < h => pc[g] \notin Unused
        /\ \E d \in D :
            /\ req' = [req EXCEPT ![h] = d]
            /\ pc' = [pc EXCEPT ![h] = ParseOutcome(d)]
            /\ raised' = [raised EXCEPT ![h] = ~d.ok]
        /\ entry' = [entry EXCEPT ![h] = << >>]
        /\ resp' = [resp EXCEPT ![h] = None]
        /\ ttl' = [ttl EXCEPT ![h] = DefaultTTL]
        /\ out' = [out EXCEPT ![h] = << >>]
        /\ fwd' = [fwd EXCEPT ![h] = 0]
        /\ sock' = [sock EXCEPT ![h] = "unbound"]
        /\ stores' = [stores EXCEPT ![h] = 0]
        /\ found' = [found EXCEPT ![h] = NotLooked]
    /\ received' = received + 1
    /\ UNCHANGED << shared, clock, listener >>

Recv == Listen(Datagrams, MaxDatagrams)

\* A run of repeated identical queries, one more than MaxDatagrams: two
\* that can miss at the same time and a later one.
RecvRepeated == Listen(RepeatedQueries, MaxDatagrams + 1)

\* history: the latest store for key k as a lookup at time t should see
\* it: never stored, stored and t before its expiry, or stored and expired.
\* first: the bytes of the first store for k, if t is before its expiry.
Seen(k, t) ==
    LET first == IF firstStore[k] # << >> /\ t < firstStore[k][1].expiry
                 THEN firstStore[k][1].raw ELSE None
    IN
    IF lastStore[k] = << >> THEN [state |-> "absent", raw |-> None, first |-> first]
    ELSE IF t < lastStore[k][1].expiry
         THEN [state |-> "fresh", raw |-> lastStore[k][1].raw, first |-> first]
         ELSE [state |-> "expired", raw |-> None, first |-> first]

\* lines 79 and 46-49: forward_query is called; it opens a socket and sends
\* the client's own bytes to the upstream resolver, or socket.socket()
\* raises (OSError: no descriptor left) and sock is never bound.
CallForward(h) ==
    /\ fwd' = [fwd EXCEPT ![h] = @ + 1]
    /\ \/ /\ sock' = [sock EXCEPT ![h] = "open"]
          /\ pc' = [pc EXCEPT ![h] = "await"]
          /\ UNCHANGED raised
       \/ /\ pc' = [pc EXCEPT ![h] = "dropped"]
          /\ raised' = [raised EXCEPT ![h] = TRUE]
          /\ UNCHANGED sock

\* lines 65-68 and 74-79: enter "with cache_lock", read the entry and the
\* clock; on a fresh entry stay inside the block; an entry that is not
\* fresh is deleted, the block is left, and forward_query is called.
Lookup(h) ==
    LET k == req[h].key IN
    /\ pc[h] = "acquire1"
    /\ LockIsFree
    /\ found' = [found EXCEPT ![h] = Seen(k, now)]
    /\ IF k \in DOMAIN cache
       THEN IF IsFresh(now, cache[k].expiry)
            THEN /\ entry' = [entry EXCEPT ![h] = << cache[k] >>]
                 /\ pc' = [pc EXCEPT ![h] = "hit_send"]
                 /\ lock' = h
                 /\ UNCHANGED << cache, fwd, sock, raised >>
            ELSE /\ cache' = Evict(cache, k)
                 /\ CallForward(h)
                 /\ UNCHANGED << lock, entry >>
       ELSE /\ CallForward(h)
            /\ UNCHANGED << cache, lock, entry >>
    /\ UNCHANGED << lastStore, firstStore, clock, received, listener, req, resp, ttl,
                    out, stores >>

\* lines 70-73: still inside the with block, rebuild the reply from the
\* cached bytes and send it; return.  sendto may fail (OSError).
HitSend(h) ==
    /\ pc[h] = "hit_send"
    /\ lock = h
    /\ \/ /\ Parseable(entry[h][1].raw)
          /\ out' = [out EXCEPT ![h] = Append(@,
                        [to |-> ReplyAddr(h),
                         data |-> HitReply(entry[h][1].raw, req[h].id),
                         via |-> "hit"])]
          /\ pc' = [pc EXCEPT ![h] = "replied"]
          /\ lock' = Free
          /\ UNCHANGED raised
       \/ /\ pc' = [pc EXCEPT ![h] = "dropped"]
          /\ raised' = [raised EXCEPT ![h] = TRUE]
          /\ lock' = LockAfterRaise(h)
          /\ UNCHANGED out
    /\ entry' = [entry EXCEPT ![h] = << >>]
    /\ UNCHANGED << cache, lastStore, firstStore, clock, received, listener, req, resp, ttl,
                    fwd, sock, stores, found >>

\* What recvfrom may return for the query q: a reply that carries the
\* query's id, in the library's encoding or in another one; a datagram with
\* another id (the socket takes whatever arrives at its port); a
\* zero-length datagram; bytes that do not parse.
UpstreamReplies(q) ==
    { Bytes(q.id, a, "packed") : a \in AnswerSets } \cup
    { Bytes(q.id, TwoAnswers, "loose") } \cup
    { Bytes(i, NoAnswers, "packed") : i \in TxIds \ {q.id} } \cup
    { Empty, Garbage }

\* Replies of a resolver that answers with a record of TTL 0 or with no
\* record.
ZeroTTLReplies(q) == { Bytes(q.id, a, "packed") : a \in { ZeroTTL, NoAnswers } }

\* lines 50-51 and 80-88: recvfrom returns bytes, one of R; the handler
\* drops None and b'', parses the bytes and computes the ttl.
Reply(h, R) ==
    /\ pc[h] = "await"
    /\ \E r \in R :
        /\ resp' = [resp EXCEPT ![h] = r]
        /\ pc' = [pc EXCEPT ![h] = ForwardOutcome(r)]
        /\ raised' = [raised EXCEPT ![h] = r.kind = "garbage"]
        /\ ttl' = [ttl EXCEPT ![h] =
                     IF Parseable(r) THEN TTLToCache(Parse(r)) ELSE DefaultTTL]
    /\ sock' = [sock EXCEPT ![h] = "closed"]
    /\ UNCHANGED << shared, clock, received, listener, req, entry,
                    out, fwd, stores, found >>

ForwardReply(h) == Reply(h, UpstreamReplies(req[h]))

ForwardReplyZeroTTL(h) == Reply(h, ZeroTTLReplies(req[h]))

\* lines 52-53 and 80-81: socket.timeout; forward_query returns None and
\* the handler returns.
ForwardTimeout(h) ==
    /\ pc[h] = "await"
    /\ resp' = [resp EXCEPT ![h] = None]
    /\ pc' = [pc EXCEPT ![h] = ForwardOutcome(None)]
    /\ out' = [out EXCEPT ![h] = @ \o TimeoutReply(req[h])]
    /\ sock' = [sock EXCEPT ![h] = SockAfterFailure(@)]
    /\ UNCHANGED << shared, clock, received, listener, req, entry, ttl,
                    fwd, stores, raised, found >>

\* lines 49-50, 54-55: sendto or recvfrom raises another error (OSError);
\* it leaves forward_query and reaches the except clause of line 96.
ForwardError(h) ==
    /\ pc[h] = "await"
    /\ pc' = [pc EXCEPT ![h] = "dropped"]
    /\ raised' = [raised EXCEPT ![h] = TRUE]
    /\ sock' = [sock EXCEPT ![h] = SockAfterFailure(@)]
    /\ UNCHANGED << shared, clock, received, listener, locals,
                    out, fwd, stores, found >>

\* lines 90-91: enter "with cache_lock",
\* cache[(qname, qtype)] = (response_data, time.time() + ttl), leave it.
Store(h) ==
    LET k == req[h].key
        e == [raw |-> resp[h], expiry |-> now + ttl[h]]
    IN
    /\ pc[h] = "acquire2"
    /\ LockIsFree
    /\ cache' = Put(cache, k, e)
    /\ pc' = [pc EXCEPT ![h] = "send"]
    /\ stores' = [stores EXCEPT ![h] = @ + 1]
    /\ lastStore' = [lastStore EXCEPT ![k] =
                        << [raw |-> resp[h], at |-> now, expiry |-> e.expiry] >>]
    /\ firstStore' = [firstStore EXCEPT ![k] =
                        IF @ = << >>
                        THEN << [raw |-> resp[h], at |-> now, expiry |-> e.expiry] >>
                        ELSE @]
    /\ UNCHANGED << lock, clock, received, listener, locals,
                    out, fwd, sock, raised, found >>

\* line 94: server_socket.sendto(response_data, addr); it may fail (OSError).
Send(h) ==
    /\ pc[h] = "send"
    /\ \/ /\ out' = [out EXCEPT ![h] = Append(@,
                        [to |-> ReplyAddr(h), data |-> MissReply(resp[h]), via |-> "miss"])]
          /\ pc' = [pc EXCEPT ![h] = "replied"]
          /\ UNCHANGED raised
       \/ /\ pc' = [pc EXCEPT ![h] = "dropped"]
          /\ raised' = [raised EXCEPT ![h] = TRUE]
          /\ UNCHANGED out
    /\ UNCHANGED << shared, clock, received, listener, locals,
                    fwd, sock, stores, found >>

handle_client(h) ==
    \/ Lookup(h)
    \/ HitSend(h)
    \/ ForwardReply(h)
    \/ ForwardTimeout(h)
    \/ ForwardError(h)
    \/ Store(h)
    \/ Send(h)

Next ==
    \/ Tick
    \/ Recv
    \/ \E h \in Threads : handle_client(h)

Spec == Init /\ [][Next]_vars

NextRepeated ==
    \/ Tick
    \/ RecvRepeated
    \/ \E h \in Threads : handle_client(h)

SpecRepeated == Init /\ [][NextRepeated]_vars

\* Repeated identical queries answered by a resolver whose records have
\* TTL 0.
NextZeroTTL ==
    \/ Tick
    \/ RecvRepeated
    \/ \E h \in Threads :
        \/ Lookup(h)
        \/ HitSend(h)
        \/ ForwardReplyZeroTTL(h)
        \/ ForwardTimeout(h)
        \/ ForwardError(h)
        \/ Store(h)
        \/ Send(h)

SpecZeroTTL == Init /\ [][NextZeroTTL]_vars

\* ---------------------------------------------------------------- claims
Sent(h) == { out[h][i] : i \in DOMAIN out[h] }
Answers(b) == Parse(b).ans
Other(h) == CHOOSE g \in Threads : g # h

\* The forward of thread h has returned, and what it returned.
Forwarded(h) == fwd[h] > 0 /\ pc[h] # "await"
TimedOut(h) == Forwarded(h) /\ resp[h].kind = "none" /\ ~raised[h]
Echoed(h) == Parseable(resp[h]) /\ resp[h].id = req[h].id

\* C1: every datagram sent to a client carries the transaction id of that
\* client's own query: always on the hit path, whatever id the cached bytes
\* were stored with, and on the miss path whenever the upstream reply
\* carries the id of the forwarded query.
C1_OwnTransactionId ==
    \A h \in Threads : \A d \in Sent(h) :
        (d.via = "hit" \/ Echoed(h)) =>
            Parseable(d.data) /\ d.data.id = req[h].id

\* A hit was answered from bytes stored with another transaction id.
C1_Witness ==
    \E h \in Threads : \E d \in Sent(h) :
        /\ d.via = "hit"
        /\ found[h].state = "fresh"
        /\ found[h].raw.id # req[h].id
        /\ pc[h] = "replied"

\* C2: a query whose lookup comes after a store for its key and strictly
\* before the stored expiry instant is answered with the answer data of
\* the stored upstream reply, and makes no forward call (and no store).
C2_HitWithinWindow ==
    \A h \in Threads :
        found[h].state = "fresh" =>
            /\ pc[h] \in {"hit_send", "replied", "dropped"}
            /\ fwd[h] = 0
            /\ stores[h] = 0
            /\ \A d \in Sent(h) : d.via = "hit" /\ Answers(d.data) = Answers(found[h].raw)
            /\ pc[h] = "replied" => Len(out[h]) = 1

\* C2 as first stated: a query whose lookup comes after the first store for
\* its key and strictly before the expiry instant of that store makes no
\* forward call and is answered with the answer data of that first reply.
C2_SameAsFirstReply ==
    \A h \in Threads :
        Parseable(found[h].first) =>
            /\ fwd[h] = 0
            /\ \A d \in Sent(h) : Answers(d.data) = Answers(found[h].first)

\* A hit some time after the store, with a non-empty answer section.
C2_Witness ==
    \E h \in Threads :
        /\ found[h].state = "fresh"
        /\ pc[h] = "replied"
        /\ Len(out[h]) = 1
        /\ Answers(out[h][1].data) = TwoAnswers
        /\ lastStore[req[h].key] # << >>
        /\ lastStore[req[h].key][1].at < now

\* C3: a query whose lookup comes at or after the stored expiry instant of
\* its key is not answered from the cache and makes a forward call of its
\* own.
C3_ExpiredIsMiss ==
    \A h \in Threads :
        found[h].state = "expired" =>
            /\ pc[h] # "hit_send"
            /\ \A d \in Sent(h) : d.via = "miss"
            /\ fwd[h] = 1

\* A lookup that found the stored entry expired went on to forward, store
\* and reply.
C3_Witness ==
    \E h \in Threads :
        /\ found[h].state = "expired"
        /\ fwd[h] = 1
        /\ stores[h] = 1
        /\ pc[h] = "replied"

\* C4: a handler whose forward timed out sends no datagram to the client
\* and ends Dropped.
C4_TimeoutIsSilent ==
    \A h \in Threads :
        TimedOut(h) => pc[h] = "dropped" /\ out[h] = << >>

C4_Witness ==
    \E h \in Threads : TimedOut(h) /\ pc[h] = "dropped" /\ req[h].ok

\* C5: a handler whose forward timed out or returned bytes that do not
\* parse makes no store, and every cache entry holds the bytes and expiry of
\* a store made by a handler whose reply parsed.
C5_NoStoreOnFailure ==
    /\ \A h \in Threads :
        (Forwarded(h) /\ ~Parseable(resp[h])) => stores[h] = 0 /\ pc[h] = "dropped"
    /\ \A h \in Threads : stores[h] > 0 => Parseable(resp[h])
    /\ \A k \in DOMAIN cache :
        /\ Parseable(cache[k].raw)
        /\ lastStore[k] # << >>
        /\ cache[k].raw = lastStore[k][1].raw
        /\ cache[k].expiry = lastStore[k][1].expiry

\* One handler stored its reply, another got bytes that do not parse for
\* the same key and left the entry alone.
C5_Witness ==
    \E h \in Threads :
        /\ resp[h] = Garbage
        /\ pc[h] = "dropped"
        /\ req[h].key \in DOMAIN cache
        /\ stores[Other(h)] = 1
        /\ req[Other(h)].key = req[h].key

\* C6: every datagram a handler sends is addressed to the source address
\* of the datagram the handler was started for.
C6_OwnAddress ==
    \A h \in Threads : \A d \in Sent(h) : d.to = req[h].addr

\* Two handlers for the same key and different clients have both replied.
C6_Witness ==
    /\ \A h \in Threads : pc[h] = "replied" /\ Len(out[h]) = 1
    /\ req[1].key = req[2].key
    /\ req[1].addr # req[2].addr

\* C7: a stored entry expires at the time of the store plus the smallest
\* TTL of the reply's answer records, or plus 60 if it has none.
C7_ExpiryIsStorePlusTTL ==
    \A k \in Keys :
        lastStore[k] # << >> =>
            LET s == lastStore[k][1]
                a == Answers(s.raw)
            IN  /\ Len(a) = 0 => s.expiry = s.at + 60
                /\ Len(a) > 0 =>
                     \E i \in DOMAIN a :
                        /\ s.expiry = s.at + a[i].ttl
                        /\ \A j \in DOMAIN a : a[i].ttl <= a[j].ttl
                /\ (k \in DOMAIN cache) => cache[k].expiry = s.expiry

\* Both kinds of reply have been stored, one of them after the clock moved.
C7_Witness ==
    /\ "k1" \in DOMAIN cache
    /\ "k2" \in DOMAIN cache
    /\ Answers(cache["k1"].raw) = NoAnswers
    /\ Answers(cache["k2"].raw) = TwoAnswers
    /\ lastStore["k2"][1].at > 0

\* C8: a failure in a handler ends that handler Dropped with the cache lock
\* released; the Listener stays in its receive loop, and the lock is only
\* ever held by a handler that is still running inside the with block.
C8_FailureContained ==
    /\ listener = "recv"
    /\ \A h \in Threads : raised[h] => pc[h] = "dropped"
    /\ \A h \in Threads : pc[h] \in Terminal => lock # h
    /\ lock # Free => pc[lock] = "hit_send"

\* A handler has failed inside the with block; the lock is free again and
\* the other handler, still running, is about to send its reply.
C8_Witness ==
    \E h \in Threads :
        /\ raised[h]
        /\ found[h].state = "fresh"
        /\ pc[h] = "dropped"
        /\ pc[Other(h)] = "send"
        /\ lock = Free

\* C9: a handler whose datagram does not parse sends nothing, forwards
\* nothing and neither reads nor writes the cache; a handler whose upstream
\* reply does not parse sends nothing to the client.
C9_ParseFailureDrops ==
    /\ \A h \in Threads :
        (~req[h].ok /\ pc[h] # "idle") =>
            /\ pc[h] = "dropped"
            /\ out[h] = << >>
            /\ fwd[h] = 0
            /\ stores[h] = 0
            /\ found[h].state = "none"
    /\ \A h \in Threads :
        (Forwarded(h) /\ resp[h].kind = "garbage") =>
            pc[h] = "dropped" /\ out[h] = << >>

C9_Witness ==
    \E h \in Threads :
        /\ ~req[h].ok
        /\ pc[h] = "dropped"
        /\ raised[h]
        /\ resp[Other(h)] = Garbage
        /\ pc[Other(h)] = "dropped"

\* C10: on a hit the datagram sent is the cached bytes with only the
\* transaction id overwritten by the query's id.
C10_HitIsPatchedBytes ==
    \A h \in Threads : \A d \in Sent(h) :
        d.via = "hit" => d.data = [found[h].raw EXCEPT !.id = req[h].id]

\* The steps of thread h that write the map.
StoreStep(h) == pc[h] = "acquire2" /\ pc'[h] = "send"
LookupStep(h) == pc[h] = "acquire1" /\ pc'[h] # "acquire1"
EntryAt(c, k) == IF k \in DOMAIN c THEN << c[k] >> ELSE << >>

\* C11: on a miss whose forward succeeded, the datagram sent to the client
\* is exactly the bytes the upstream resolver returned, and the store puts
\* those same bytes into the entry of the query's key.
C11_MissIsPassThrough ==
    [][ \A h \in Threads :
          /\ StoreStep(h) =>
                /\ req[h].key \in DOMAIN cache'
                /\ cache'[req[h].key].raw = resp[h]
          /\ \A i \in DOMAIN out'[h] :
                out'[h][i].via = "miss" => out'[h][i].data = resp'[h] ]_vars

\* A reply in an encoding the library would not emit was stored and sent on.
C11_Witness ==
    \E h \in Threads :
        /\ pc[h] = "replied"
        /\ fwd[h] = 1
        /\ resp[h].kind = "dns"
        /\ resp[h].enc = "loose"
        /\ Len(out[h]) = 1
        /\ out[h][1].data = resp[h]
        /\ req[h].key \in DOMAIN cache
        /\ cache[req[h].key].raw = resp[h]

\* C12: no handler sends to the client or talks to the upstream resolver
\* while it holds cache_lock.
C12_NoIOUnderLock ==
    \A h \in Threads :
        pc[h] \in {"hit_send", "await", "send"} => lock # h

\* The lookup of thread h has been made.
Looked(h) == found[h].state # "none"
HasTTLZero(b) == \E i \in DOMAIN Answers(b) : Answers(b)[i].ttl = 0

\* C13: a lookup is served from the cache exactly when an entry for the key
\* has been stored and the time of the lookup is strictly before its expiry
\* instant; in particular an entry stored with a TTL of 0 is never served.
C13_ServedIffBeforeExpiry ==
    \A h \in Threads :
        Looked(h) =>
            /\ found[h].state = "fresh" <=> fwd[h] = 0
            /\ fwd[h] = 0 =>
                 /\ pc[h] \in {"hit_send", "replied", "dropped"}
                 /\ \A d \in Sent(h) : d.via = "hit"
                 /\ ~HasTTLZero(found[h].raw)
            /\ fwd[h] > 0 => \A d \in Sent(h) : d.via = "miss"

\* An entry with TTL 0 was stored and looked up at the very same instant, and
\* the lookup went on to the upstream resolver.
C13_Witness ==
    \E h \in Threads :
        LET k == req[h].key IN
        /\ pc[h] = "await"
        /\ found[h].state = "expired"
        /\ lastStore[k] # << >>
        /\ HasTTLZero(lastStore[k][1].raw)
        /\ lastStore[k][1].at = now
        /\ lastStore[k][1].expiry = now

\* C14: a lookup that finds the entry of its key expired leaves the key
\* absent from the cache with the lock released, all in one critical
\* section, and a forward that then fails or times out leaves the cache as
\* it is.
C14_ExpiredIsEvicted ==
    [][ \A h \in Threads :
          /\ (LookupStep(h) /\ found'[h].state = "expired") =>
                /\ req[h].key \notin DOMAIN cache'
                /\ lock' # h
          /\ (pc[h] = "await" /\ pc'[h] = "dropped") => cache' = cache ]_vars

\* The entry was stored, found expired by a later lookup, and the forward of
\* that lookup timed out: the key is absent.
C14_Witness ==
    \E h \in Threads :
        /\ found[h].state = "expired"
        /\ TimedOut(h)
        /\ pc[h] = "dropped"
        /\ lastStore[req[h].key] # << >>
        /\ req[h].key \notin DOMAIN cache

\* C15: the entry of a key changes only by the store of a handler for that
\* key whose forward returned bytes that parse (the whole entry is replaced)
\* or by the lookup of a handler for that key that finds it expired at that
\* moment (the entry is removed).
C15_CacheFrame ==
    [][ \A k \in Keys :
          EntryAt(cache', k) # EntryAt(cache, k) =>
            \E h \in Threads :
                /\ req[h].key = k
                /\ \/ /\ StoreStep(h)
                      /\ Parseable(resp[h])
                      /\ EntryAt(cache', k) = << [raw |-> resp[h], expiry |-> now + ttl[h]] >>
                   \/ /\ LookupStep(h)
                      /\ k \in DOMAIN cache
                      /\ now >= cache[k].expiry
                      /\ k \notin DOMAIN cache' ]_vars

\* An entry was stored, removed by a lookup that found it expired, and
\* replaced by the store of that same handler with different bytes.
C15_Witness ==
    \E h \in Threads :
        LET k == req[h].key IN
        /\ found[h].state = "expired"
        /\ pc[h] = "send"
        /\ k \in DOMAIN cache
        /\ cache[k].raw = resp[h]
        /\ firstStore[k] # << >>
        /\ firstStore[k][1].raw # resp[h]

\* The lookup of thread h was a miss on a key no handler had stored yet.
MissedUnstored(h) == found[h].state = "absent"
Finished(h) == pc[h] \in {"send", "replied", "dropped"} /\ fwd[h] = 1

\* C16: handlers that miss on the same key at the same time each make their
\* own forward call and, when it succeeds, their own store; once they have
\* all stored, the cache holds one entry for the key, the one written by
\* the store that took the lock last.
C16_LastWriterWins ==
    \A h \in Threads :
        MissedUnstored(h) =>
            /\ fwd[h] = 1
            /\ pc[h] \in {"send", "replied"} => stores[h] = 1
            /\ LET g == Other(h)
                   k == req[h].key
               IN (/\ MissedUnstored(g)
                   /\ req[g].key = k
                   /\ Finished(h) /\ stores[h] = 1
                   /\ Finished(g) /\ stores[g] = 1) =>
                      /\ k \in DOMAIN cache
                      /\ lastStore[k] # << >>
                      /\ cache[k] = [raw |-> lastStore[k][1].raw,
                                     expiry |-> lastStore[k][1].expiry]
                      /\ lastStore[k][1].raw \in {resp[h], resp[g]}

\* Two handlers missed on the same key before either had stored, each got a
\* different reply and stored it, and both have replied; the cache holds the
\* second store, not the first.
C16_Witness ==
    \E h \in Threads :
        LET g == Other(h)
            k == req[h].key
        IN /\ MissedUnstored(h) /\ MissedUnstored(g)
           /\ req[g].key = k
           /\ pc[h] = "replied" /\ pc[g] = "replied"
           /\ stores[h] = 1 /\ stores[g] = 1
           /\ resp[h] # resp[g]
           /\ firstStore[k][1].raw = resp[g]
           /\ cache[k].raw = resp[h]

C18_EndpointClosed ==
    \A h \in Threads : pc[h] # "await" => sock[h] # "open"

\* One call timed out and another failed with an error; both endpoints are
\* closed.
C18_Witness ==
    \E h \in Threads :
        /\ TimedOut(h) /\ sock[h] = "closed"
        /\ fwd[Other(h)] = 1 /\ raised[Other(h)] /\ pc[Other(h)] = "dropped"
        /\ sock[Other(h)] = "closed"

\* The upstream wait ends (a reply, the timeout, or an error), a send
\* returns or raises, and a handler that waits for the lock gets it when it
\* is free again and again.
Fairness ==
    \A h \in Threads :
        /\ SF_vars(Lookup(h))
        /\ SF_vars(Store(h))
        /\ WF_vars(HitSend(h))
        /\ WF_vars(ForwardReply(h) \/ ForwardTimeout(h) \/ ForwardError(h))
        /\ WF_vars(Send(h))

SpecFair == Init /\ [][NextRepeated]_vars /\ Fairness

\* What a handler has put on the network so far is within its budget.
WithinBudget(h) ==
    /\ Len(out[h]) <= 1
    /\ fwd[h] <= 1
    /\ found[h].state = "fresh" => fwd[h] = 0
    /\ pc[h] = "replied" => Len(out[h]) = 1
    /\ pc[h] = "dropped" => Len(out[h]) = 0

\* C19: every handler that is started ends as replied or dropped, given that
\* the upstream wait is bounded and the lock is granted fairly; it sends at
\* most one datagram to the client (exactly one when replied, none when
\* dropped) and makes at most one forward call, none after a hit.
C19_HandlerTerminates ==
    /\ [](\A h \in Threads : WithinBudget(h))
    /\ \A h \in Threads : (pc[h] \notin Unused) ~> (pc[h] \in Terminal)

\* One handler replied from the cache without a forward and the other
\* replied after its one forward.
C19_Witness ==
    \E h \in Threads :
        /\ pc[h] = "replied" /\ found[h].state = "fresh"
        /\ fwd[h] = 0 /\ Len(out[h]) = 1
        /\ pc[Other(h)] = "replied" /\ fwd[Other(h)] = 1
        /\ Len(out[Other(h)]) = 1

\* C20: the lock is held by at most one handler at a time, and only inside
\* a critical section; a handler that has left its critical section, by a
\* return or by an exception raised inside it, does not hold the lock, so
\* the lock is free whenever no handler is inside one.
C20_LockReleasedOnEveryExit ==
    /\ Cardinality({ h \in Threads : pc[h] = "hit_send" }) <= 1
    /\ \A h \in Threads : pc[h] = "hit_send" <=> lock = h
    /\ (\A h \in Threads : pc[h] # "hit_send") => lock = Free

\* A hit reply failed inside the critical section and its handler is
\* dropped; a later handler for the same key has taken the lock.
C20_Witness ==
    \E h \in Threads :
        /\ pc[h] = "dropped" /\ raised[h]
        /\ found[h].state = "fresh"
        /\ pc[Other(h)] = "hit_send"
        /\ lock = Other(h)

====
